---------------------------- MODULE Spec2Model ----------------------------
(***************************************************************************)
(* A model of the gorouter HTTP route multiplexer (src/router.go).         *)
(*                                                                         *)
(* Go strings are sequences of one-character strings, so that indexing,    *)
(* slicing and strings.Split are computed as the code computes them.       *)
(* Go slices are (array, len, cap) headers over a heap of backing arrays,  *)
(* so that append's aliasing is what the runtime does.                     *)
(* The route tree (NewTree, Tree.Add, Tree.Find, Node) is not part of      *)
(* src/; it is modelled from sections 3, 4.1 and 4.2 of the specification. *)
(***************************************************************************)
EXTENDS Integers, Sequences, FiniteSets, TLC

VARIABLES
    routers,    \* the Router objects: routers[1] is New(), the others come from Group
    heap,       \* backing arrays of the middleware slices
    trees,      \* Router.trees, the map shared by a router and its groups
    nroutes,    \* number of routes stored so far (identity of the next node)
    nmw,        \* number of middleware values handed to Use so far
    last,       \* outcome of the last call on a router
    expected,   \* history: per router, the stack inherited at Group plus its own Use arguments
    held,       \* history: per stored route, the stacks of its router when Handle was called
    mPath,      \* Match: the route path argument
    mUrl,       \* Match: the request path argument
    mRes        \* Match: the result of matchAndParse, once called

vars == <<routers, heap, trees, nroutes, nmw, last, expected, held, mPath, mUrl, mRes>>

routerVars == <<routers, heap, trees, nroutes, nmw, last, expected, held>>
matchVars == <<mPath, mUrl, mRes>>

---------------------------------------------------------------------------
(* Bounds of the model *)

MaxRoutes == 2      \* routes stored under Spec
MaxMwRoutes == 1    \* routes stored under SpecMw and SpecAlias
MaxGroups == 1      \* routers made by Group under SpecMw and SpecAlias
MaxMw == 3          \* middleware values handed to Use under SpecMw
MaxAliasMw == 5     \* middleware values handed to Use under SpecAlias
MaxLen == 5         \* length of the request paths matchAndParse is applied to

---------------------------------------------------------------------------
(* Strings *)

Digit == {"0", "1", "2", "3", "4", "5", "6", "7", "8", "9"}

Lower == {"a", "b", "c", "d", "e", "f", "g", "h", "i", "j", "k", "l", "m",
          "n", "o", "p", "q", "r", "s", "t", "u", "v", "w", "x", "y", "z"}

Upper == {"A", "B", "C", "D", "E", "F", "G", "H", "I", "J", "K", "L", "M",
          "N", "O", "P", "Q", "R", "S", "T", "U", "V", "W", "X", "Y", "Z"}

\* the regexp class \w
Word == Digit \cup Lower \cup Upper \cup {"_"}

\* characters that stand for themselves in a regular expression
Literal == Word \cup {"/", ":", "-"}

defaultPattern == <<"[", "\\", "w", "]", "+">>

idPattern == <<"[", "\\", "d", "]", "+">>

idKey == <<"i", "d">>

methods == {"GET", "POST", "PUT", "DELETE", "PATCH"}

Range(s) == {s[i] : i \in DOMAIN s}

\* s[from:to] of Go, on 0-based offsets
Slice(s, from, to) == SubSeq(s, from + 1, to)

\* strings.Split(s, sep) for a one-character separator
RECURSIVE SplitFrom(_, _, _, _)
SplitFrom(s, sep, i, cur) ==
    IF i > Len(s) THEN <<cur>>
    ELSE IF s[i] = sep THEN <<cur>> \o SplitFrom(s, sep, i + 1, <<>>)
    ELSE SplitFrom(s, sep, i + 1, Append(cur, s[i]))

Split(s, sep) == SplitFrom(s, sep, 1, <<>>)

---------------------------------------------------------------------------
(* Regular expressions: the subset matchAndParse builds *)

Lit(c) == [t |-> "lit", c |-> c, cls |-> {}]

Grp(cls) == [t |-> "grp", c |-> "", cls |-> cls]

Bad == [t |-> "bad", c |-> "", cls |-> {}]

\* the class a parenthesised fragment denotes
ClassOf(frag) ==
    IF frag = idPattern THEN Grp(Digit)
    ELSE IF frag = defaultPattern THEN Grp(Word)
    ELSE Bad

\* offset of the first ")" at or after i, 0 when there is none
RECURSIVE CloseAt(_, _)
CloseAt(s, i) ==
    IF i > Len(s) THEN 0
    ELSE IF s[i] = ")" THEN i
    ELSE CloseAt(s, i + 1)

\* regexp.MustCompile(pattern), as a sequence of literals and capturing groups
RECURSIVE CompileFrom(_, _)
CompileFrom(s, i) ==
    IF i > Len(s) THEN <<>>
    ELSE IF s[i] = "("
         THEN LET j == CloseAt(s, i) IN
              IF j = 0 THEN <<Bad>>
              ELSE <<ClassOf(SubSeq(s, i + 1, j - 1))>> \o CompileFrom(s, j + 1)
    ELSE IF s[i] \in Literal THEN <<Lit(s[i])>> \o CompileFrom(s, i + 1)
    ELSE <<Bad>>

MustCompile(pattern) == CompileFrom(pattern, 1)

NoMatch == [ok |-> FALSE, end |-> 0, caps |-> <<>>]

\* length of the longest run of characters of cls in s from offset pos
RECURSIVE RunLen(_, _, _)
RunLen(s, pos, cls) ==
    IF pos <= Len(s) /\ s[pos] \in cls THEN 1 + RunLen(s, pos + 1, cls) ELSE 0

\* the preferred match of re[i..] at offset pos of s: a group is greedy and
\* gives characters back one at a time
RECURSIVE MatchHere(_, _, _, _)
RECURSIVE TryRun(_, _, _, _, _)
MatchHere(re, i, s, pos) ==
    IF i > Len(re) THEN [ok |-> TRUE, end |-> pos - 1, caps |-> <<>>]
    ELSE IF re[i].t = "lit"
         THEN IF pos <= Len(s) /\ s[pos] = re[i].c
              THEN MatchHere(re, i + 1, s, pos + 1)
              ELSE NoMatch
    ELSE TryRun(re, i, s, pos, RunLen(s, pos, re[i].cls))

TryRun(re, i, s, pos, n) ==
    IF n < 1 THEN NoMatch
    ELSE LET rest == MatchHere(re, i + 1, s, pos + n) IN
         IF rest.ok
         THEN [ok |-> TRUE, end |-> rest.end,
               caps |-> <<SubSeq(s, pos, pos + n - 1)>> \o rest.caps]
         ELSE TryRun(re, i, s, pos, n - 1)

\* re.FindSubmatch(s): the leftmost match, as <<whole match>> \o captures;
\* <<>> stands for nil
RECURSIVE FindFrom(_, _, _)
FindFrom(re, s, start) ==
    IF start > Len(s) + 1 THEN <<>>
    ELSE LET m == MatchHere(re, 1, s, start) IN
         IF m.ok THEN <<SubSeq(s, start, m.end)>> \o m.caps
         ELSE FindFrom(re, s, start + 1)

FindSubmatch(re, s) == FindFrom(re, s, 1)

---------------------------------------------------------------------------
(* matchAndParse *)

NoParams == [ok |-> FALSE, params |-> <<>>, fault |-> ""]

Fault(f) == [ok |-> FALSE, params |-> <<>>, fault |-> f]

\* the loop over the segments of path: the names, the pattern text, and the
\* fault an index out of range raises
RECURSIVE BuildPattern(_, _, _, _)
BuildPattern(res, k, matchName, sTemp) ==
    IF k > Len(res) THEN [matchName |-> matchName, sTemp |-> sTemp, fault |-> ""]
    ELSE LET str == res[k]
             strLen == Len(str)
         IN
         IF str = <<>> THEN BuildPattern(res, k + 1, matchName, sTemp)
         ELSE IF str[1] = "{" /\ str[strLen] = "}"
              THEN LET r2 == Split(Slice(str, 1, strLen - 1), ":") IN
                   IF Len(r2) < 2
                   THEN [matchName |-> Append(matchName, r2[1]), sTemp |-> sTemp,
                         fault |-> "matchAndParse: index out of range"]
                   ELSE BuildPattern(res, k + 1, Append(matchName, r2[1]),
                                     sTemp \o <<"/", "(">> \o r2[2] \o <<")">>)
         ELSE IF str[1] = ":"
              THEN LET r2 == Split(str, ":") IN
                   BuildPattern(res, k + 1, Append(matchName, r2[2]),
                                sTemp \o <<"/", "(">>
                                \o (IF r2[2] = idKey THEN idPattern ELSE defaultPattern)
                                \o <<")">>)
         ELSE BuildPattern(res, k + 1, matchName, sTemp \o <<"/">> \o str)

\* matchParams[matchName[k]] = subMatch[k], assigned for k = 0, 1, ...
ParamsOf(matchName, caps) ==
    [n \in {matchName[k] : k \in 1..Len(caps)} |->
        LET ks == {k \in 1..Len(caps) : matchName[k] = n}
            kl == CHOOSE k \in ks : \A j \in ks : j <= k
        IN caps[kl]]

\* a mutant of Accepts: any match is accepted, wherever it ends
AcceptsPartial(subMatch, requestUrl) == subMatch # <<>>

\* the match is accepted when it is the whole request path
Accepts(subMatch, requestUrl) == subMatch # <<>> /\ subMatch[1] = requestUrl

matchAndParse(requestUrl, path) ==
    LET b == BuildPattern(Split(path, "/"), 1, <<>>, <<>>) IN
    IF b.fault # "" THEN Fault(b.fault)
    ELSE LET re == MustCompile(b.sTemp) IN
         IF \E i \in DOMAIN re : re[i].t = "bad" THEN Fault("regexp")
         ELSE LET subMatch == FindSubmatch(re, requestUrl) IN
              IF Accepts(subMatch, requestUrl)
              THEN IF Len(subMatch) - 1 > Len(b.matchName)
                   THEN Fault("matchAndParse: index out of range")
                   ELSE [ok |-> TRUE,
                         params |-> ParamsOf(b.matchName, Tail(subMatch)),
                         fault |-> ""]
              ELSE NoParams

---------------------------------------------------------------------------
(* Router.Match applied to bounded inputs *)

UrlChars == {"/", "u", "4", "2", "-"}

Urls == UNION {[1..n -> UrlChars] : n \in 0..MaxLen}

MatchPaths == {
    <<"/", "u", "/", ":", "i", "d">>,
    <<"/", "u", "/", ":", "n">>,
    <<"/", ":", "n", "/", ":", "n">>,
    <<"/", ":", "n", "/", ":", "i", "d">>,
    <<"/", "u", "/", "{", "n", ":", "[", "\\", "d", "]", "+", "}">>,
    <<"/", "u", "/", "{", "n", "}">>,
    <<"/", "u", "/", ":">>,
    <<"u", "/", ":", "i", "d", "/">>,
    <<"/", "u", "/", "4">>,
    <<"/">> }

NotCalled == [ok |-> FALSE, params |-> <<>>, fault |-> "not called"]

InitMatch ==
    /\ mPath \in MatchPaths
    /\ mUrl \in Urls
    /\ mRes = NotCalled

Match ==
    /\ mRes = NotCalled
    /\ mRes' = matchAndParse(mUrl, mPath)
    /\ UNCHANGED <<mPath, mUrl>>


---------------------------------------------------------------------------
(* Slices of middleware *)

NilSlice == [arr |-> 0, len |-> 0, cap |-> 0]

\* the elements a slice header denotes in heap hp
ContentsIn(hp, sl) == IF sl.arr = 0 THEN <<>> ELSE SubSeq(hp[sl.arr], 1, sl.len)

\* capacities whose size in bytes is a size class of the allocator (8-byte elements)
SizeClassCaps == {1, 2, 3, 4, 6, 8, 10, 12, 14, 16, 18, 20, 22, 24, 26, 28, 30, 32}

\* capacity of the array append allocates for newLen elements over oldCap
GrowCap(oldCap, newLen) ==
    LET want == IF newLen > 2 * oldCap THEN newLen ELSE 2 * oldCap IN
    CHOOSE c \in SizeClassCaps :
        c >= want /\ \A d \in SizeClassCaps : d >= want => c <= d

\* append(sl, ms...): in place while the capacity lasts, else into a new array
AppendSlice(hp, sl, ms) ==
    LET n == Len(ms)
        newLen == sl.len + n
    IN
    IF newLen <= sl.cap
    THEN [heap |-> [hp EXCEPT ![sl.arr] =
                       [i \in 1..sl.cap |->
                           IF i > sl.len /\ i <= newLen THEN ms[i - sl.len] ELSE @[i]]],
          slice |-> [sl EXCEPT !.len = newLen]]
    ELSE LET c == GrowCap(sl.cap, newLen)
             old == ContentsIn(hp, sl)
         IN [heap |-> Append(hp, [i \in 1..c |->
                                     IF i <= sl.len THEN old[i]
                                     ELSE IF i <= newLen THEN ms[i - sl.len]
                                     ELSE 0]),
             slice |-> [arr |-> Len(hp) + 1, len |-> newLen, cap |-> c]]

\* the heap and the routers once the arrays no router refers to are collected;
\* the arrays left are numbered in the order of the routers that refer to them
Collect(hp, rt) ==
    LET live == {rt[r].mw.arr : r \in DOMAIN rt} \ {0}
        firstRef(a) == CHOOSE r \in DOMAIN rt :
                           rt[r].mw.arr = a /\ \A q \in 1..(r - 1) : rt[q].mw.arr # a
        rank(a) == Cardinality({b \in live : firstRef(b) <= firstRef(a)})
    IN [heap |-> [k \in 1..Cardinality(live) |->
                     hp[CHOOSE a \in live : rank(a) = k]],
        routers |-> [r \in DOMAIN rt |->
                        IF rt[r].mw.arr = 0 THEN rt[r]
                        ELSE [rt[r] EXCEPT !.mw.arr = rank(rt[r].mw.arr)]]]

---------------------------------------------------------------------------
(* The route tree, modelled from the specification (sections 3, 4.1, 4.2) *)

NewTree == <<>>

NonEmpty(segs) == SelectSeq(segs, LAMBDA x : x # <<>>)

Segments(path) == NonEmpty(Split(path, "/"))

IsBraced(tok) == tok # <<>> /\ tok[1] = "{" /\ tok[Len(tok)] = "}"

IsColon(tok) == tok # <<>> /\ tok[1] = ":"

\* a braced token without a ":" separator, or a ":" token without a name
MalformedToken(tok) ==
    \/ IsBraced(tok) /\ Len(Split(Slice(tok, 1, Len(tok) - 1), ":")) < 2
    \/ ~IsBraced(tok) /\ IsColon(tok) /\ Split(tok, ":")[2] = <<>>

Malformed(path) == \E i \in DOMAIN Segments(path) : MalformedToken(Segments(path)[i])

IsStatic(path) ==
    \A i \in DOMAIN Segments(path) :
        ~IsBraced(Segments(path)[i]) /\ ~IsColon(Segments(path)[i])

\* the bucket key of a path: its first segment, <<"/">> when it has none
BucketKey(path) == IF Segments(path) = <<>> THEN <<"/">> ELSE Segments(path)[1]

\* a mutant of Add: the path is stored without being compiled
AddUnchecked(tree, path, handle, middleware, id) ==
    [tree |-> Append(tree, [id |-> id, path |-> path, handle |-> handle,
                            middleware |-> middleware,
                            static |-> IsStatic(path),
                            key |-> BucketKey(path)]),
     fault |-> ""]

\* Tree.Add: the tree after the call and the registration fault it raises
Add(tree, path, handle, middleware, id) ==
    IF Malformed(path)
    THEN [tree |-> tree, fault |-> "malformed route"]
    ELSE [tree |-> Append(tree, [id |-> id, path |-> path, handle |-> handle,
                                 middleware |-> middleware,
                                 static |-> IsStatic(path),
                                 key |-> BucketKey(path)]),
          fault |-> ""]

\* the route stored under an exact key: the last static route registered with that path
ExactAt(tree, key) ==
    LET ks == {i \in DOMAIN tree : tree[i].static /\ tree[i].path = key} IN
    IF ks = {} THEN <<>>
    ELSE <<tree[CHOOSE i \in ks : \A j \in ks : j <= i]>>

\* Tree.Find: mode 0 is the exact lookup (the key, then the key without its
\* leading "/"), mode 1 the candidates of a first segment in registration order
Find(tree, key, mode) ==
    IF mode = 0
    THEN IF ExactAt(tree, key) # <<>> THEN ExactAt(tree, key)
         ELSE IF key # <<>> /\ key[1] = "/" THEN ExactAt(tree, Tail(key))
         ELSE <<>>
    ELSE SelectSeq(tree, LAMBDA n : n.key = key)

---------------------------------------------------------------------------
(* Dispatch *)

\* a nil http.HandlerFunc; the handlers passed in are <<"h", k>> and <<"nf">>
NilHandler == <<>>

Idle(op) ==
    [op |-> op, router |-> 0, method |-> "", url |-> <<>>, kind |-> "", stage |-> "",
     route |-> 0, handler |-> NilHandler, ctx |-> FALSE, params |-> <<>>, chain |-> <<>>,
     trace |-> <<>>, fault |-> "", recovered |-> FALSE]

\* handle: each middleware of the list wraps the handler composed so far
RECURSIVE Wrap(_, _, _)
Wrap(t, middleware, i) ==
    IF i > Len(middleware) THEN t
    ELSE Wrap(<<<<"in", middleware[i]>>>> \o t \o <<<<"out", middleware[i]>>>>,
              middleware, i + 1)

handle(handler, middleware) == Wrap(<<<<"H", handler>>>>, middleware, 1)

\* a mutant of Invoke: the handler runs with the stack New()'s router holds now
InvokeRouterStack(node, stage, ctx, params) ==
    [Idle("ServeHTTP") EXCEPT !.kind = "route", !.stage = stage, !.route = node.id,
        !.handler = node.handle, !.ctx = ctx, !.params = params,
        !.chain = ContentsIn(heap, routers[1].mw),
        !.trace = handle(node.handle, ContentsIn(heap, routers[1].mw))]

\* a route's handler invoked; params is the context value, when ctx says it is set
Invoke(node, stage, ctx, params) ==
    [Idle("ServeHTTP") EXCEPT !.kind = "route", !.stage = stage, !.route = node.id,
        !.handler = node.handle, !.ctx = ctx, !.params = params,
        !.chain = node.middleware, !.trace = handle(node.handle, node.middleware)]

Raise(f) == [Idle("ServeHTTP") EXCEPT !.kind = "fault", !.fault = f]

\* GetAllParams(r) for the request a handler saw: <<>> stands for nil
GetAllParams(out) == IF out.ctx THEN out.params ELSE <<>>

HandleNotFound(notFound, middleware) ==
    IF notFound # NilHandler
    THEN [Idle("ServeHTTP") EXCEPT !.kind = "notfound", !.handler = notFound,
            !.chain = middleware, !.trace = handle(notFound, middleware)]
    ELSE [Idle("ServeHTTP") EXCEPT !.kind = "default404"]

\* a mutant of TryCandidates: the last matching candidate wins
TryCandidatesLast(nodes, i, requestUrl, notFound, middleware) ==
    LET ks == {k \in i..Len(nodes) :
                  /\ nodes[k].handle # NilHandler
                  /\ nodes[k].path # requestUrl
                  /\ matchAndParse(requestUrl, nodes[k].path).ok}
    IN IF ks = {} THEN HandleNotFound(notFound, middleware)
       ELSE LET k == CHOOSE x \in ks : \A y \in ks : y <= x IN
            Invoke(nodes[k], "pattern", TRUE, matchAndParse(requestUrl, nodes[k].path).params)

\* the loop over the candidates of the first segment
RECURSIVE TryCandidates(_, _, _, _, _)
TryCandidates(nodes, i, requestUrl, notFound, middleware) ==
    IF i > Len(nodes) THEN HandleNotFound(notFound, middleware)
    ELSE LET node == nodes[i] IN
         IF node.handle # NilHandler /\ node.path # requestUrl
         THEN LET m == matchAndParse(requestUrl, node.path) IN
              IF m.fault # "" THEN Raise(m.fault)
              ELSE IF m.ok THEN Invoke(node, "pattern", TRUE, m.params)
              ELSE TryCandidates(nodes, i + 1, requestUrl, notFound, middleware)
         ELSE TryCandidates(nodes, i + 1, requestUrl, notFound, middleware)

\* a mutant of ExactHit: the node's path is compared with the request path without its first character
ExactHitStripped(nodes, requestUrl) ==
    /\ Len(nodes) > 0 /\ nodes[1].handle # NilHandler
    /\ requestUrl # <<>> /\ nodes[1].path = Tail(requestUrl)

\* the first test of the exact lookup's node: it has a handler and its path is the request path
ExactHit(nodes, requestUrl) ==
    Len(nodes) > 0 /\ nodes[1].handle # NilHandler /\ nodes[1].path = requestUrl

\* the body of ServeHTTP, before the deferred recover
Serve(tr, method, requestUrl, notFound, middleware) ==
    IF method \notin DOMAIN tr THEN Raise("method is not registered")
    ELSE LET nodes == Find(tr[method], requestUrl, 0) IN
         IF ExactHit(nodes, requestUrl)
         THEN Invoke(nodes[1], "exact", FALSE, <<>>)
         ELSE IF Len(nodes) > 0 /\ nodes[1].handle # NilHandler /\ requestUrl = <<>>
         THEN Raise("ServeHTTP: slice bounds out of range")
         ELSE IF Len(nodes) > 0 /\ nodes[1].handle # NilHandler
                 /\ nodes[1].path = Slice(requestUrl, 1, Len(requestUrl))
         THEN Invoke(nodes[1], "exact", FALSE, <<>>)
         ELSE IF Len(nodes) = 0
         THEN LET res == Split(requestUrl, "/") IN
              IF Len(res) < 2 THEN Raise("ServeHTTP: index out of range")
              ELSE TryCandidates(Find(tr[method], res[2], 1), 1, requestUrl,
                                 notFound, middleware)
         ELSE HandleNotFound(notFound, middleware)

\* ServeHTTP on router r: the deferred recover hands a fault to PanicHandler
ServeHTTPOp(r, method, requestUrl) ==
    LET out == Serve(trees, method, requestUrl, routers[r].notFound,
                     ContentsIn(heap, routers[r].mw))
    IN
    /\ last' = [out EXCEPT !.router = r, !.method = method, !.url = requestUrl,
                   !.recovered = (out.fault # "" /\ routers[r].PanicHandler)]
    /\ UNCHANGED <<routers, heap, trees, nroutes, nmw, expected, held>>

---------------------------------------------------------------------------
(* Registration *)

\* Handle on router r with a fresh handler, while fewer than bound routes are stored
HandleOp(r, method, path, bound) ==
    /\ nroutes < bound
    /\ IF method \notin methods
       THEN /\ last' = [Idle("Handle") EXCEPT !.router = r, !.method = method,
                           !.url = path, !.kind = "fault", !.fault = "invalid method"]
            /\ UNCHANGED <<trees, nroutes, held>>
       ELSE LET t1 == IF method \in DOMAIN trees THEN trees
                      ELSE trees @@ (method :> NewTree)
                full == IF routers[r].prefix # <<>>
                        THEN routers[r].prefix \o <<"/">> \o path
                        ELSE path
                stack == ContentsIn(heap, routers[r].mw)
                a == Add(t1[method], full, <<"h", nroutes + 1>>, stack, nroutes + 1)
            IN
            /\ trees' = [t1 EXCEPT ![method] = a.tree]
            /\ nroutes' = IF a.fault = "" THEN nroutes + 1 ELSE nroutes
            /\ held' = IF a.fault = ""
                       THEN Append(held, [router |-> r, stack |-> stack,
                                          expected |-> expected[r]])
                       ELSE held
            /\ last' = [Idle("Handle") EXCEPT !.router = r, !.method = method,
                           !.url = full, !.route = IF a.fault = "" THEN nroutes + 1 ELSE 0,
                           !.kind = IF a.fault = "" THEN "stored" ELSE "fault",
                           !.fault = a.fault]
    /\ UNCHANGED <<routers, heap, nmw, expected>>

\* Use on router r with n fresh middleware values
UseOp(r, n) ==
    LET ms == [i \in 1..n |-> nmw + i] IN
    /\ IF n > 0
       THEN LET a == AppendSlice(heap, routers[r].mw, ms)
                c == Collect(a.heap, [routers EXCEPT ![r].mw = a.slice])
            IN
            /\ heap' = c.heap
            /\ routers' = c.routers
       ELSE UNCHANGED <<heap, routers>>
    /\ nmw' = nmw + n
    /\ expected' = [expected EXCEPT ![r] = @ \o ms]
    /\ last' = Idle("Use")
    /\ UNCHANGED <<trees, nroutes, held>>

\* Group on router r: a new router with the prefix, the same trees, the same slice header
GroupOp(r, prefix) ==
    /\ routers' = Append(routers, [prefix |-> prefix, mw |-> routers[r].mw,
                                   notFound |-> NilHandler, PanicHandler |-> FALSE])
    /\ expected' = Append(expected, ContentsIn(heap, routers[r].mw))
    /\ last' = Idle("Group")
    /\ UNCHANGED <<heap, trees, nroutes, nmw, held>>

NotFoundFuncOp(r, handler) ==
    /\ routers' = [routers EXCEPT ![r].notFound = handler]
    /\ last' = Idle("NotFoundFunc")
    /\ UNCHANGED <<heap, trees, nroutes, nmw, expected, held>>

\* the assignment router.PanicHandler = f
SetPanicHandlerOp(r) ==
    /\ routers' = [routers EXCEPT ![r].PanicHandler = TRUE]
    /\ last' = Idle("PanicHandler")
    /\ UNCHANGED <<heap, trees, nroutes, nmw, expected, held>>

\* New()
New == [prefix |-> <<>>, mw |-> NilSlice, notFound |-> NilHandler, PanicHandler |-> FALSE]

InitRouter ==
    /\ routers = <<New>>
    /\ heap = <<>>
    /\ trees = <<>>
    /\ nroutes = 0
    /\ nmw = 0
    /\ last = Idle("New")
    /\ expected = <<<<>>>>
    /\ held = <<>>

---------------------------------------------------------------------------
(* Spec: registration and dispatch on the router New() returns *)

HandleMethods == {"GET", "POST", "HEAD"}

ServeMethods == {"GET", "POST"}

Paths == {
    <<"/", "u">>,
    <<"/", "u", "/", ":", "i", "d">>,
    <<"/", "u", "/", ":", "n">>,
    <<"/", "u", "/", "{", "x", "}">>,
    <<"/", "u", "/", ":">> }

ReqUrls == {
    <<>>,
    <<"/">>,
    <<"u">>,
    <<"/", "u">>,
    <<"/", "/", "u">>,
    <<"/", "u", "/", "4">>,
    <<"/", "u", "/", "u">>,
    <<"/", "x">> }

Handle ==
    \E r \in DOMAIN routers, method \in HandleMethods, path \in Paths :
        HandleOp(r, method, path, MaxRoutes)

NotFoundFunc ==
    \E r \in DOMAIN routers :
        routers[r].notFound = NilHandler /\ NotFoundFuncOp(r, <<"nf">>)

SetPanicHandler ==
    \E r \in DOMAIN routers :
        ~routers[r].PanicHandler /\ SetPanicHandlerOp(r)

ServeHTTP ==
    \E r \in DOMAIN routers, method \in ServeMethods, requestUrl \in ReqUrls :
        ServeHTTPOp(r, method, requestUrl)

Init ==
    /\ InitRouter
    /\ mPath = <<>> /\ mUrl = <<>> /\ mRes = NotCalled

Next ==
    \/ Handle /\ UNCHANGED matchVars
    \/ NotFoundFunc /\ UNCHANGED matchVars
    \/ SetPanicHandler /\ UNCHANGED matchVars
    \/ ServeHTTP /\ UNCHANGED matchVars

Spec == Init /\ [][Next]_vars

---------------------------------------------------------------------------
(* SpecMw: middleware stacks, groups, and the routes registered through them *)

Prefixes == {<<"/", "g">>}

\* how many middleware values one call of Use passes
UseArgs == {0, 1, 2}

MwPaths == {<<"/", "u">>}

MwUrls == {<<"/", "u">>, <<"/", "g", "/", "/", "u">>}

Use ==
    \E r \in DOMAIN routers, n \in UseArgs :
        /\ nmw + n <= MaxMw
        /\ UseOp(r, n)

UseAlias ==
    \E r \in DOMAIN routers, n \in UseArgs :
        /\ nmw + n <= MaxAliasMw
        /\ UseOp(r, n)

Group ==
    \E r \in DOMAIN routers, prefix \in Prefixes :
        /\ Len(routers) < 1 + MaxGroups
        /\ GroupOp(r, prefix)

HandleMw ==
    \E r \in DOMAIN routers, path \in MwPaths :
        HandleOp(r, "GET", path, MaxMwRoutes)

ServeMw ==
    \E requestUrl \in MwUrls :
        ServeHTTPOp(1, "GET", requestUrl)

NextMw ==
    \/ Use /\ UNCHANGED matchVars
    \/ Group /\ UNCHANGED matchVars
    \/ HandleMw /\ UNCHANGED matchVars
    \/ ServeMw /\ UNCHANGED matchVars

SpecMw == Init /\ [][NextMw]_vars

---------------------------------------------------------------------------
(* SpecAlias: SpecMw with enough middleware for two routers to append into one array *)

NextAlias ==
    \/ UseAlias /\ UNCHANGED matchVars
    \/ Group /\ UNCHANGED matchVars
    \/ HandleMw /\ UNCHANGED matchVars
    \/ ServeMw /\ UNCHANGED matchVars

SpecAlias == Init /\ [][NextAlias]_vars

---------------------------------------------------------------------------
(* SpecMatch: matchAndParse on every request path up to MaxLen *)

InitM ==
    /\ InitMatch
    /\ InitRouter

NextMatch == Match /\ UNCHANGED routerVars

SpecMatch == InitM /\ [][NextMatch]_vars

---------------------------------------------------------------------------
(* Properties *)

\* the routes stored for a method
Stored(method) == IF method \in DOMAIN trees THEN Range(trees[method]) ELSE {}

\* the handlers a dispatch ran, in order
HandlerRuns(trace) ==
    LET hs == SelectSeq(trace, LAMBDA e : e[1] = "H") IN [i \in DOMAIN hs |-> hs[i][2]]

\* the middleware a dispatch entered, in order
Entered(trace) ==
    LET es == SelectSeq(trace, LAMBDA e : e[1] = "in") IN [i \in DOMAIN es |-> es[i][2]]

Reverse(s) == [i \in 1..Len(s) |-> s[Len(s) + 1 - i]]

\* the static routes of the dispatched method whose path is the request path
SamePath == {n \in Stored(last.method) : IsStatic(n.path) /\ n.path = last.url}

\* C1: a request whose path equals the path of a registered static route of its
\* method runs the handler of the last route registered with that path, once,
\* and the handler sees no parameters.
C1_StaticExact ==
    (last.op = "ServeHTTP" /\ SamePath # {}) =>
        LET win == CHOOSE n \in SamePath : \A m \in SamePath : m.id <= n.id IN
        /\ last.kind = "route"
        /\ last.route = win.id
        /\ HandlerRuns(last.trace) = <<win.handle>>
        /\ GetAllParams(last) = <<>>

\* a static path registered twice and then requested: the second registration is served
C1_Witness ==
    /\ last.op = "ServeHTTP" /\ last.kind = "route" /\ last.stage = "exact"
    /\ Cardinality(SamePath) = 2
    /\ last.route = 2
    /\ last.handler = <<"h", 2>>

\* the name a parameter token binds
ParamName(tok) ==
    IF IsBraced(tok) THEN Split(Slice(tok, 1, Len(tok) - 1), ":")[1]
    ELSE Split(tok, ":")[2]

\* the pattern's segments with each parameter segment replaced by its value
RECURSIVE SubstFrom(_, _, _)
SubstFrom(segs, i, params) ==
    IF i > Len(segs) THEN <<>>
    ELSE <<"/">>
         \o (IF IsBraced(segs[i]) \/ IsColon(segs[i])
             THEN params[ParamName(segs[i])] ELSE segs[i])
         \o SubstFrom(segs, i + 1, params)

Substitute(path, params) == SubstFrom(Segments(path), 1, params)

\* C2: whenever matchAndParse accepts a request path for a parameterized
\* pattern, the pattern with every parameter segment replaced by the value
\* stored under its name is the request path (empty segments of the pattern
\* are not counted against it).
C2_RoundTrip ==
    (mRes.ok /\ ~IsStatic(mPath)) => Substitute(mPath, mRes.params) = mUrl

\* the routes of the dispatched method that matchAndParse accepts for the request path
Matching == {n \in Stored(last.method) : matchAndParse(last.url, n.path).ok}

\* C3: when the routes that match a request path all do so through a
\* parameterized pattern, the one registered first is served, with its
\* parameters, and no other handler runs.
C3_FirstRegisteredWins ==
    (last.op = "ServeHTTP" /\ Matching # {} /\ \A n \in Matching : ~IsStatic(n.path)) =>
        LET first == CHOOSE n \in Matching : \A m \in Matching : n.id <= m.id IN
        /\ last.kind = "route"
        /\ last.route = first.id
        /\ HandlerRuns(last.trace) = <<first.handle>>
        /\ GetAllParams(last) = matchAndParse(last.url, first.path).params

\* /u/:id registered before /u/:n, then /u/4 requested: id = "4" is served
C3_Witness ==
    /\ last.op = "ServeHTTP" /\ last.kind = "route" /\ last.stage = "pattern"
    /\ Cardinality(Matching) = 2
    /\ last.url = <<"/", "u", "/", "4">>
    /\ last.route = 1
    /\ \E n \in Matching : n.id = 1 /\ n.path = <<"/", "u", "/", ":", "i", "d">>
    /\ \E n \in Matching : n.id = 2 /\ n.path = <<"/", "u", "/", ":", "n">>
    /\ idKey \in DOMAIN last.params /\ last.params[idKey] = <<"4">>

\* the trace of handler h behind the stack ms: the last of ms first
ExpectedTrace(ms, h) ==
    [i \in 1..(2 * Len(ms) + 1) |->
        IF i <= Len(ms) THEN <<"in", ms[Len(ms) + 1 - i]>>
        ELSE IF i = Len(ms) + 1 THEN <<"H", h>>
        ELSE <<"out", ms[i - Len(ms) - 1]>>]

\* C4: a route runs behind the middleware its router was given before the
\* registration (inherited at Group, then its own Use calls in order): entered
\* last to first, then the handler, then left first to last.
C4_MiddlewareOrder ==
    (last.op = "ServeHTTP" /\ last.kind = "route") =>
        last.trace = ExpectedTrace(held[last.route].expected, last.handler)

\* C5: a request for a method without a stored route raises the
\* unregistered-method fault, runs no handler, and the fault is handed to
\* PanicHandler exactly when one is set.
C5_UnregisteredMethodFault ==
    (last.op = "ServeHTTP" /\ Stored(last.method) = {}) =>
        /\ last.kind = "fault"
        /\ last.fault = "method is not registered"
        /\ last.trace = <<>>
        /\ last.recovered = routers[last.router].PanicHandler

\* a stored route matches the request path, exactly or through its pattern
MatchesRequest(n, url) ==
    \/ IsStatic(n.path) /\ (n.path = url \/ <<"/">> \o n.path = url)
    \/ matchAndParse(url, n.path).ok

\* C6: a request for a method with stored routes, none of which matches the
\* request path, ends in the not-found handler (the custom one when set) and
\* raises no fault.
C6_UnmatchedIsNotFound ==
    (/\ last.op = "ServeHTTP"
     /\ Stored(last.method) # {}
     /\ \A n \in Stored(last.method) : ~MatchesRequest(n, last.url)) =>
        /\ last.fault = ""
        /\ IF routers[last.router].notFound # NilHandler
           THEN last.kind = "notfound"
                /\ HandlerRuns(last.trace) = <<routers[last.router].notFound>>
           ELSE last.kind = "default404"

\* what a token of a pattern admits as a request segment
TokenAdmits(tok, seg) ==
    IF IsColon(tok)
    THEN /\ seg # <<>>
         /\ IF ParamName(tok) = idKey THEN Range(seg) \subseteq Digit
            ELSE Range(seg) \subseteq Word
    ELSE seg = tok

\* the request path is "/" + segment for every token of the pattern, each admitted
StructMatch(url, path) ==
    LET ps == Segments(path)
        us == Split(url, "/")
    IN /\ Len(us) = Len(ps) + 1
       /\ us[1] = <<>>
       /\ \A i \in DOMAIN ps : TokenAdmits(ps[i], us[i + 1])

\* C7: for a pattern of static and :name tokens, matchAndParse accepts exactly
\* the request paths that are the pattern's segments in full, with digits only
\* for :id and word characters for any other name, and binds each name to its
\* segment (the last one of that name).
C7_IdDigits ==
    (/\ mRes # NotCalled
     /\ \A i \in DOMAIN Segments(mPath) : ~IsBraced(Segments(mPath)[i])) =>
        LET ps == Segments(mPath)
            us == Split(mUrl, "/")
        IN /\ mRes.fault = ""
           /\ mRes.ok <=> StructMatch(mUrl, mPath)
           /\ mRes.ok =>
                \A i \in DOMAIN ps :
                    (/\ IsColon(ps[i])
                     /\ \A j \in DOMAIN ps :
                            (j > i /\ IsColon(ps[j])) => ParamName(ps[j]) # ParamName(ps[i]))
                    => mRes.params[ParamName(ps[i])] = us[i + 1]

\* /u/:id accepts /u/42 with id = "42"
C7_Witness ==
    /\ mPath = <<"/", "u", "/", ":", "i", "d">>
    /\ mUrl = <<"/", "u", "/", "4", "2">>
    /\ mRes.ok
    /\ mRes.params[idKey] = <<"4", "2">>

\* C8: a malformed pattern is refused by the registering call, is never
\* stored, and never raises a fault of matchAndParse during a dispatch.
C8_MalformedRejected ==
    /\ \A m \in DOMAIN trees : \A i \in DOMAIN trees[m] : ~Malformed(trees[m][i].path)
    /\ (last.op = "Handle" /\ last.method \in methods /\ Malformed(last.url)) =>
            (last.kind = "fault" /\ last.fault = "malformed route" /\ last.route = 0)
    /\ last.op = "ServeHTTP" => last.fault # "matchAndParse: index out of range"

\* a dispatch on a method whose only registration was refused
C8_Witness ==
    /\ last.op = "ServeHTTP"
    /\ last.method \in DOMAIN trees
    /\ trees[last.method] = <<>>
    /\ last.url = <<"/", "u", "/", "4">>
    /\ last.kind = "default404"

C10_StacksIndependent ==
    \A r \in DOMAIN routers : ContentsIn(heap, routers[r].mw) = expected[r]

=============================================================================
